---- MODULE Spec2Model ----
(***************************************************************************)
(* Order lifecycle of backend/app/services/trading_service.py: the orders  *)
(* and trade_executions tables, and the service functions create_order,    *)
(* execute_order, cancel_order and modify_order that write them.           *)
(***************************************************************************)
EXTENDS Integers, Sequences, FiniteSets, TLC

\* ------------------------------------------------------------------ bounds
\* The orders table holds at most MaxOrders rows.
MaxOrders == 2
\* The clock is read at most MaxTime times: a service call that would read
\* it later is not taken.
MaxTime == 3

\* ------------------------------------------------------- optional values
\* Python None and a present value v of an Optional[...] column or field.
None == << >>

Some(v) == << v >>

\* --------------------------------------------------------------- enums
\* models/trading.py: OrderType, OrderSide, OrderStatus (member names).
OrderType == {"MARKET", "LIMIT", "STOP", "STOP_LIMIT"}

OrderSide == {"BUY", "SELL"}

OrderStatus == {"PENDING", "FILLED", "PARTIALLY_FILLED", "CANCELLED", "REJECTED", "EXPIRED"}

\* The member name in place of its value, as str(order.status) would give.
StatusName(s) == "OrderStatus." \o s

\* OrderStatus.<member>.value
StatusValue(s) ==
    CASE s = "PENDING" -> "pending"
      [] s = "FILLED" -> "filled"
      [] s = "PARTIALLY_FILLED" -> "partially_filled"
      [] s = "CANCELLED" -> "cancelled"
      [] s = "REJECTED" -> "rejected"
      [] s = "EXPIRED" -> "expired"

\* str.upper() on the ticker symbols the model uses.
Upper(s) ==
    CASE s = "aapl" -> "AAPL"
      [] s = "msft" -> "MSFT"
      [] OTHER -> s

\* ---------------------------------------------------------------- inputs
\* The users that call the service: User.id and User.is_active.
UserIds == {1, 2}

Users == [id : UserIds, is_active : BOOLEAN]

\* The OrderCreate objects the model hands to create_order: two MARKET orders,
\* a LIMIT order with and one without its limit price, a STOP and a
\* STOP_LIMIT order.  The schema has already upper-cased the symbol and
\* refused a quantity <= 0 and a price <= 0; a price that is left out is None.
OrderCreate ==
    { [symbol |-> Upper("msft"), order_type |-> "MARKET", side |-> "SELL", quantity |-> 2,
       limit_price |-> None, stop_price |-> None, notes |-> None],
      [symbol |-> Upper("aapl"), order_type |-> "MARKET", side |-> "BUY", quantity |-> 1,
       limit_price |-> None, stop_price |-> None, notes |-> Some("n")],
      [symbol |-> Upper("aapl"), order_type |-> "LIMIT", side |-> "BUY", quantity |-> 2,
       limit_price |-> Some(100), stop_price |-> None, notes |-> None],
      [symbol |-> Upper("aapl"), order_type |-> "LIMIT", side |-> "BUY", quantity |-> 1,
       limit_price |-> None, stop_price |-> None, notes |-> None],
      [symbol |-> Upper("aapl"), order_type |-> "STOP", side |-> "SELL", quantity |-> 2,
       limit_price |-> None, stop_price |-> Some(110), notes |-> Some("n")],
      [symbol |-> Upper("msft"), order_type |-> "STOP_LIMIT", side |-> "BUY", quantity |-> 1,
       limit_price |-> Some(100), stop_price |-> Some(110), notes |-> None] }

\* An OrderUpdate schema whose quantity constraint is ge=0 instead of gt=0.
OrderUpdate_AllowsZero ==
    { p \in [quantity : {None, Some(0), Some(1)}, limit_price : {None, Some(120)},
             stop_price : {None, Some(120)}, notes : {None, Some("m")}] :
        /\ (p.quantity # None => p.quantity[1] >= 0)
        /\ (p.limit_price # None => p.limit_price[1] > 0)
        /\ (p.stop_price # None => p.stop_price[1] > 0) }

\* OrderUpdate objects handed to modify_order: every field is optional, and
\* the schema refuses a quantity <= 0 and a price <= 0.
OrderUpdate ==
    { p \in [quantity : {None, Some(1)}, limit_price : {None, Some(120)},
             stop_price : {None, Some(120)}, notes : {None, Some("m")}] :
        /\ (p.quantity # None => p.quantity[1] > 0)
        /\ (p.limit_price # None => p.limit_price[1] > 0)
        /\ (p.stop_price # None => p.stop_price[1] > 0) }

\* The patches the model sends: the empty one and each field alone.
Present(p) == { f \in {"quantity", "limit_price", "stop_price", "notes"} : p[f] # None }

Patches == { p \in OrderUpdate : Cardinality(Present(p)) <= 1 }

\* ----------------------------------------------------------------- state
VARIABLES
    orders,      \* the orders table: orders[i] is the row with id i
    executions,  \* the trade_executions table, in insertion order
    clock,       \* the last value datetime.utcnow() returned
    response,    \* what the last service call returned or raised; where calls
                 \* interleave, what the call of each session returned or raised
    request      \* the arguments a caller has chosen for its next calls, where
                 \* a specification fixes them beforehand; where calls
                 \* interleave, the position of each session's request and the
                 \* Order object the session holds; None otherwise

vars == << orders, executions, clock, response, request >>

OrderIds == 1..MaxOrders

\* ', '.join(errors)
RECURSIVE Join(_)
Join(errors) ==
    IF errors = << >> THEN ""
    ELSE IF Len(errors) = 1 THEN errors[1]
    ELSE errors[1] \o ", " \o Join(Tail(errors))

\* A validation that stops at the first rule that is violated.
ValidationErrors_ShortCircuit(user, order_data) ==
    IF ~user.is_active THEN << "User account is not active" >>
    ELSE IF order_data.symbol = "" \/ Len(order_data.symbol) < 1 \/ Len(order_data.symbol) > 20
    THEN << "Invalid stock symbol" >>
    ELSE IF order_data.quantity <= 0 THEN << "Quantity must be greater than 0" >>
    ELSE IF order_data.order_type = "LIMIT" /\ order_data.limit_price = None
    THEN << "Limit price is required for limit orders" >>
    ELSE IF order_data.order_type \in {"STOP", "STOP_LIMIT"} /\ order_data.stop_price = None
    THEN << "Stop price is required for stop orders" >>
    ELSE IF order_data.order_type = "STOP_LIMIT" /\ order_data.limit_price = None
    THEN << "Limit price is required for stop-limit orders" >>
    ELSE << >>

\* A validation whose limit-price rule looks at the stop price.
ValidationErrors_LimitRuleOnStopPrice(user, order_data) ==
    LET e1 == IF ~user.is_active THEN << "User account is not active" >> ELSE << >>
        e2 == IF order_data.symbol = "" \/ Len(order_data.symbol) < 1 \/ Len(order_data.symbol) > 20
              THEN << "Invalid stock symbol" >> ELSE << >>
        e3 == IF order_data.quantity <= 0 THEN << "Quantity must be greater than 0" >> ELSE << >>
        e4 == IF order_data.order_type = "LIMIT" /\ order_data.stop_price = None
              THEN << "Limit price is required for limit orders" >> ELSE << >>
        e5 == IF order_data.order_type \in {"STOP", "STOP_LIMIT"} /\ order_data.stop_price = None
              THEN << "Stop price is required for stop orders" >> ELSE << >>
        e6 == IF order_data.order_type = "STOP_LIMIT" /\ order_data.limit_price = None
              THEN << "Limit price is required for stop-limit orders" >> ELSE << >>
    IN e1 \o e2 \o e3 \o e4 \o e5 \o e6

\* validate_order: the errors list, every rule evaluated in turn.
ValidationErrors(user, order_data) ==
    LET e1 == IF ~user.is_active THEN << "User account is not active" >> ELSE << >>
        e2 == IF order_data.symbol = "" \/ Len(order_data.symbol) < 1 \/ Len(order_data.symbol) > 20
              THEN << "Invalid stock symbol" >> ELSE << >>
        e3 == IF order_data.quantity <= 0 THEN << "Quantity must be greater than 0" >> ELSE << >>
        e4 == IF order_data.order_type = "LIMIT" /\ order_data.limit_price = None
              THEN << "Limit price is required for limit orders" >> ELSE << >>
        e5 == IF order_data.order_type \in {"STOP", "STOP_LIMIT"} /\ order_data.stop_price = None
              THEN << "Stop price is required for stop orders" >> ELSE << >>
        e6 == IF order_data.order_type = "STOP_LIMIT" /\ order_data.limit_price = None
              THEN << "Limit price is required for stop-limit orders" >> ELSE << >>
    IN e1 \o e2 \o e3 \o e4 \o e5 \o e6

\* Warnings that compare the prices with >= and <=.
ValidationWarnings_NotStrict(order_data) ==
    IF /\ order_data.order_type = "STOP_LIMIT"
       /\ order_data.limit_price # None
       /\ order_data.stop_price # None
    THEN IF order_data.side = "BUY" /\ order_data.stop_price[1] >= order_data.limit_price[1]
         THEN << "Stop price is above limit price for buy stop-limit order" >>
         ELSE IF order_data.side = "SELL" /\ order_data.stop_price[1] <= order_data.limit_price[1]
         THEN << "Stop price is below limit price for sell stop-limit order" >>
         ELSE << >>
    ELSE << >>

\* validate_order: the warnings list, from the STOP_LIMIT branch.
ValidationWarnings(order_data) ==
    IF /\ order_data.order_type = "STOP_LIMIT"
       /\ order_data.limit_price # None
       /\ order_data.stop_price # None
    THEN IF order_data.side = "BUY" /\ order_data.stop_price[1] > order_data.limit_price[1]
         THEN << "Stop price is above limit price for buy stop-limit order" >>
         ELSE IF order_data.side = "SELL" /\ order_data.stop_price[1] < order_data.limit_price[1]
         THEN << "Stop price is below limit price for sell stop-limit order" >>
         ELSE << >>
    ELSE << >>

\* A result that is valid only without warnings.
OrderValidationResult_WarningsBlock(errors, warnings) ==
    [valid |-> Len(errors) = 0 /\ Len(warnings) = 0, errors |-> errors, warnings |-> warnings]

\* OrderValidationResult(valid=len(errors) == 0, errors=errors, warnings=warnings)
OrderValidationResult(errors, warnings) ==
    [valid |-> Len(errors) = 0, errors |-> errors, warnings |-> warnings]

\* A validation that reads the orders table: a user who holds an order
\* already gets an error.
validate_order_ReadsOrders(user, order_data) ==
    OrderValidationResult(
        ValidationErrors(user, order_data)
          \o (IF \E id \in DOMAIN orders : orders[id].user_id = user.id
              THEN << "User already holds an order" >> ELSE << >>),
        ValidationWarnings(order_data))

\* validate_order(db, user, order_data)
validate_order(user, order_data) ==
    OrderValidationResult(ValidationErrors(user, order_data), ValidationWarnings(order_data))

\* datetime.utcnow(): every service call that reads the clock reads a later
\* instant than the call before it; the readings within one call are
\* modelled as the same instant.
utcnow == IF clock < MaxTime THEN {clock + 1} ELSE {}

\* The row db.add(db_order); db.commit(); db.refresh(db_order) leaves in the
\* table for Order(user_id=..., status=PENDING): the constructor arguments
\* and the column defaults of models/trading.py.
NewOrder(id, user, order_data, t) ==
    [id |-> id,
     user_id |-> user.id,
     symbol |-> Upper(order_data.symbol),
     order_type |-> order_data.order_type,
     side |-> order_data.side,
     quantity |-> order_data.quantity,
     filled_quantity |-> 0,
     limit_price |-> order_data.limit_price,
     stop_price |-> order_data.stop_price,
     status |-> "PENDING",
     created_at |-> t,
     updated_at |-> t,
     filled_at |-> None,
     cancelled_at |-> None,
     rejection_reason |-> None,
     notes |-> order_data.notes]

\* An execution that records the order's filled_quantity, read before the fill.
Execution_FilledQuantity(order, execution_price, commission, t) ==
    [order_id |-> order.id,
     symbol |-> order.symbol,
     side |-> order.side,
     quantity |-> order.filled_quantity,
     price |-> execution_price,
     commission |-> commission,
     executed_at |-> t]

\* execute_order: the TradeExecution it adds ...
Execution(order, execution_price, commission, t) ==
    [order_id |-> order.id,
     symbol |-> order.symbol,
     side |-> order.side,
     quantity |-> order.quantity,
     price |-> execution_price,
     commission |-> commission,
     executed_at |-> t]

\* A fill that forgets the status.
Filled_NoStatus(order, t) ==
    [order EXCEPT !.filled_quantity = order.quantity,
                  !.filled_at = Some(t),
                  !.updated_at = t]

\* ... and the order row it commits.
Filled(order, t) ==
    [order EXCEPT !.filled_quantity = order.quantity,
                  !.status = "FILLED",
                  !.filled_at = Some(t),
                  !.updated_at = t]

\* execute_order(db, order, execution_price, commission): no guard on the
\* order's status; it adds one execution and fills the order in full.
execute_order(tables, order, execution_price, commission, t) ==
    [orders |-> [tables.orders EXCEPT ![order.id] = Filled(order, t)],
     executions |-> Append(tables.executions, Execution(order, execution_price, commission, t))]

\* A lookup by id alone, for any user.
OwnedBy_AnyUser(order_id, user_id) == order_id \in DOMAIN orders

\* db.query(Order).filter(Order.id == order_id, Order.user_id == user_id).first()
OwnedBy(order_id, user_id) ==
    order_id \in DOMAIN orders /\ orders[order_id].user_id = user_id

\* The value a service call returns and the ValueError it raises.
Returned(op, order) ==
    [op |-> op, kind |-> "ok", detail |-> "", order |-> Some(order)]

Raised(op, message) ==
    [op |-> op, kind |-> "ValueError", detail |-> message, order |-> None]

\* The simulated execution price and commission of a MARKET order.
SimulatedPrice == 100

DefaultCommission == 0

\* An immediate execution of every order that is not a LIMIT order.
ExecutesImmediately_NotLimit(order_data) == order_data.order_type # "LIMIT"

\* A message that carries the first error only.
ValidationMessage_FirstOnly(validation) ==
    "Order validation failed: " \o validation.errors[1]

\* The message of the ValueError create_order raises for a failed validation.
ValidationMessage(validation) ==
    "Order validation failed: " \o Join(validation.errors)

\* create_order simulates the immediate execution of market orders only.
ExecutesImmediately(order_data) == order_data.order_type = "MARKET"

\* create_order(db, user, order_data)
create_order(user, order_data) ==
    LET validation == validate_order(user, order_data)
        id == Len(orders) + 1
    IN IF ~validation.valid
       THEN /\ response' = Raised("create", ValidationMessage(validation))
            /\ UNCHANGED << orders, executions, clock >>
       ELSE /\ Len(orders) < MaxOrders
            /\ \E t \in utcnow :
                 LET db_order == NewOrder(id, user, order_data, t)
                     added == [orders |-> Append(orders, db_order), executions |-> executions]
                     done == IF ExecutesImmediately(order_data)
                             THEN execute_order(added, db_order, SimulatedPrice, DefaultCommission, t)
                             ELSE added
                 IN /\ orders' = done.orders
                    /\ executions' = done.executions
                    /\ clock' = t
                    /\ response' = Returned("create", done.orders[id])

\* A cancel guard that refuses CANCELLED orders only.
CanCancel_NotCancelled(order) == order.status # "CANCELLED"

\* A cancel guard that refuses FILLED orders only.
CanCancel_NotFilled(order) == order.status # "FILLED"

\* The status guard of cancel_order: only a PENDING order is cancelled.
CanCancel(order) == order.status = "PENDING"

\* A cancel that forgets cancelled_at.
Cancelled_NoCancelledAt(order, t) ==
    [order EXCEPT !.status = "CANCELLED",
                  !.updated_at = t]

\* The assignments of cancel_order.
Cancelled(order, t) ==
    [order EXCEPT !.status = "CANCELLED",
                  !.cancelled_at = Some(t),
                  !.updated_at = t]

\* cancel_order(db, order_id, user_id)
cancel_order(order_id, user_id) ==
    IF ~OwnedBy(order_id, user_id)
    THEN /\ response' = Raised("cancel", "Order not found")
         /\ UNCHANGED << orders, executions, clock >>
    ELSE IF ~CanCancel(orders[order_id])
    THEN /\ response' = Raised("cancel",
                               "Cannot cancel order with status "
                                 \o StatusValue(orders[order_id].status))
         /\ UNCHANGED << orders, executions, clock >>
    ELSE \E t \in utcnow :
           LET order == Cancelled(orders[order_id], t)
           IN /\ orders' = [orders EXCEPT ![order_id] = order]
              /\ clock' = t
              /\ response' = Returned("cancel", order)
              /\ UNCHANGED executions

\* Modify guards that refuse FILLED orders only, or CANCELLED orders only.
CanModify_NotFilled(order) == order.status # "FILLED"

CanModify_NotCancelled(order) == order.status # "CANCELLED"

\* The status guard of modify_order: only a PENDING order is modified.
CanModify(order) == order.status = "PENDING"

\* A modify that assigns the limit price without the None test.
Patched_LimitPriceAlways(order, order_update, t) ==
    [order EXCEPT
       !.quantity = IF order_update.quantity # None THEN order_update.quantity[1] ELSE @,
       !.limit_price = order_update.limit_price,
       !.stop_price = IF order_update.stop_price # None THEN order_update.stop_price ELSE @,
       !.notes = IF order_update.notes # None THEN order_update.notes ELSE @,
       !.updated_at = t]

\* A modify that assigns notes without the None test.
Patched_NotesAlways(order, order_update, t) ==
    [order EXCEPT
       !.quantity = IF order_update.quantity # None THEN order_update.quantity[1] ELSE @,
       !.limit_price = IF order_update.limit_price # None THEN order_update.limit_price ELSE @,
       !.stop_price = IF order_update.stop_price # None THEN order_update.stop_price ELSE @,
       !.notes = order_update.notes,
       !.updated_at = t]

\* The assignments of modify_order: a field of the patch that is not None
\* replaces the order's; updated_at is set.
Patched(order, order_update, t) ==
    [order EXCEPT
       !.quantity = IF order_update.quantity # None THEN order_update.quantity[1] ELSE @,
       !.limit_price = IF order_update.limit_price # None THEN order_update.limit_price ELSE @,
       !.stop_price = IF order_update.stop_price # None THEN order_update.stop_price ELSE @,
       !.notes = IF order_update.notes # None THEN order_update.notes ELSE @,
       !.updated_at = t]

\* modify_order(db, order_id, user_id, order_update)
modify_order(order_id, user_id, order_update) ==
    IF ~OwnedBy(order_id, user_id)
    THEN /\ response' = Raised("modify", "Order not found")
         /\ UNCHANGED << orders, executions, clock >>
    ELSE IF ~CanModify(orders[order_id])
    THEN /\ response' = Raised("modify",
                               "Cannot modify order with status "
                                 \o StatusValue(orders[order_id].status))
         /\ UNCHANGED << orders, executions, clock >>
    ELSE \E t \in utcnow :
           LET order == Patched(orders[order_id], order_update, t)
           IN /\ orders' = [orders EXCEPT ![order_id] = order]
              /\ clock' = t
              /\ response' = Returned("modify", order)
              /\ UNCHANGED executions

Init ==
    /\ orders = << >>
    /\ executions = << >>
    /\ clock = 0
    /\ response = [op |-> "none", kind |-> "ok", detail |-> "", order |-> None]
    /\ request = None

Create ==
    /\ \E user \in Users, order_data \in OrderCreate : create_order(user, order_data)
    /\ UNCHANGED request

Cancel ==
    /\ \E order_id \in OrderIds, user_id \in UserIds : cancel_order(order_id, user_id)
    /\ UNCHANGED request

Modify ==
    /\ \E order_id \in OrderIds, user_id \in UserIds, order_update \in Patches :
          modify_order(order_id, user_id, order_update)
    /\ UNCHANGED request

Next == Create \/ Cancel \/ Modify

Spec == Init /\ [][Next]_vars

\* ------------------------------------ validate and create on one request
\* Ticker symbols of length 0, 4 and 21.
Symbols == {"", "AAPL", "ABCDEFGHIJKLMNOPQRSTU"}

\* Objects with the attributes of OrderCreate, as validate_order and
\* create_order read them when they are called directly: no schema has
\* constrained the symbol, the quantity or the prices.
Requests ==
    [symbol : Symbols, order_type : OrderType, side : OrderSide, quantity : {-1, 0, 1},
     limit_price : {None, Some(100)}, stop_price : {None, Some(90), Some(100), Some(110)},
     notes : {None}]

\* The OrderValidationResult a call of validate_order returned.
Validated(validation) ==
    [op |-> "validate", kind |-> "ok", detail |-> "", order |-> None, validation |-> validation]

\* A caller holds a user and a request, and the tables are empty.
ValidateInit ==
    /\ orders = << >>
    /\ executions = << >>
    /\ clock = 0
    /\ response = [op |-> "none", kind |-> "ok", detail |-> "", order |-> None]
    /\ request \in [user : Users, order_data : Requests]

\* The caller validates the request: validate_order reads its arguments and
\* writes nothing.
ValidateOrder ==
    /\ response.op = "none"
    /\ response' = Validated(validate_order(request.user, request.order_data))
    /\ UNCHANGED << orders, executions, clock, request >>

\* The caller creates the order, whether or not it has validated it before.
CreateOrder ==
    /\ response.op # "create"
    /\ create_order(request.user, request.order_data)
    /\ UNCHANGED request

ValidateNext == ValidateOrder \/ CreateOrder

ValidateSpec == ValidateInit /\ [][ValidateNext]_vars

\* ------------------------------------ the create and validate endpoints
\* get_current_active_user hands the endpoints active users only.
ActiveUsers == { user \in Users : user.is_active }

\* JSON bodies posted to /orders and /orders/validate.  A body is a function
\* from the keys it carries to their values: each price key is absent, null
\* (None) or a number.
Payloads ==
    { required @@ limit @@ stop :
        required \in [symbol : {"aapl"}, order_type : OrderType, side : OrderSide,
                      quantity : {0, 1}],
        limit \in { << >>, "limit_price" :> None, "limit_price" :> Some(100) },
        stop \in { << >>, "stop_price" :> None, "stop_price" :> Some(110) } }

\* Optional[float] = Field(None, ...): the value of a price key, None by
\* default.
FieldValue(payload, key) == IF key \in DOMAIN payload THEN payload[key] ELSE None

\* validate_limit_price(cls, v, values) raises.
validate_limit_price(v, values) ==
    "order_type" \in DOMAIN values /\ values.order_type = "LIMIT" /\ v = None

\* validate_stop_price(cls, v, values) raises.
validate_stop_price(v, values) ==
    /\ "order_type" \in DOMAIN values
    /\ \/ values.order_type \in {"STOP", "STOP_LIMIT"} /\ v = None
       \/ values.order_type = "STOP_LIMIT" /\ "limit_price" \notin DOMAIN values

\* The fields of OrderCreate that refuse the body, in the order the schema
\* declares them.  A constraint (min_length, max_length, gt) looks at a value
\* that is not None; the validator of a field runs after its constraints
\* passed and only when the body carries the key, since it is not declared
\* always=True: a default is taken as it is.  values holds the fields that
\* passed so far.
SchemaErrors(payload) ==
    LET symbol_fails == ~(Len(payload.symbol) >= 1 /\ Len(payload.symbol) <= 20)
        quantity_fails == ~(payload.quantity > 0)
        base == [k \in ({"order_type", "side"}
                          \cup (IF symbol_fails THEN {} ELSE {"symbol"})
                          \cup (IF quantity_fails THEN {} ELSE {"quantity"})) |-> payload[k]]
        limit_price == FieldValue(payload, "limit_price")
        limit_fails ==
            /\ "limit_price" \in DOMAIN payload
            /\ \/ limit_price # None /\ ~(limit_price[1] > 0)
               \/ validate_limit_price(limit_price, base)
        values == IF limit_fails THEN base ELSE base @@ ("limit_price" :> limit_price)
        stop_price == FieldValue(payload, "stop_price")
        stop_fails ==
            /\ "stop_price" \in DOMAIN payload
            /\ \/ stop_price # None /\ ~(stop_price[1] > 0)
               \/ validate_stop_price(stop_price, values)
    IN (IF symbol_fails THEN {"symbol"} ELSE {})
         \cup (IF quantity_fails THEN {"quantity"} ELSE {})
         \cup (IF limit_fails THEN {"limit_price"} ELSE {})
         \cup (IF stop_fails THEN {"stop_price"} ELSE {})

\* The OrderCreate object the schema builds from a body it accepts.
OrderCreateOf(payload) ==
    [symbol |-> Upper(payload.symbol),
     order_type |-> payload.order_type,
     side |-> payload.side,
     quantity |-> payload.quantity,
     limit_price |-> FieldValue(payload, "limit_price"),
     stop_price |-> FieldValue(payload, "stop_price"),
     notes |-> FieldValue(payload, "notes")]

\* The framework's answer to a body the schema refuses: the endpoint function
\* is not called.
RequestValidationError(op) ==
    [op |-> op, kind |-> "RequestValidationError", detail |-> "", order |-> None]

\* The HTTP status of an endpoint's answer: 422 for a refused body; for a
\* ValueError, 404 from the executions endpoint and 400 from the create, modify
\* and cancel endpoints; 201 for a created order and 200 otherwise.
status_code(answer) ==
    CASE answer.kind = "RequestValidationError" -> 422
      [] answer.kind = "ValueError" /\ answer.op = "get_order_executions" -> 404
      [] answer.kind = "ValueError" /\ answer.op # "get_order_executions" -> 400
      [] answer.kind = "ok" /\ answer.op = "create" -> 201
      [] answer.kind = "ok" /\ answer.op # "create" -> 200

\* POST /orders
create_order_endpoint(current_user, payload) ==
    IF SchemaErrors(payload) # {}
    THEN /\ response' = RequestValidationError("create")
         /\ UNCHANGED << orders, executions, clock >>
    ELSE create_order(current_user, OrderCreateOf(payload))

\* POST /orders/validate
validate_order_endpoint(current_user, payload) ==
    /\ response' = IF SchemaErrors(payload) # {}
                   THEN RequestValidationError("validate")
                   ELSE Validated(validate_order(current_user, OrderCreateOf(payload)))
    /\ UNCHANGED << orders, executions, clock >>

\* A client holds a body and posts it to the two endpoints, in either order.
ApiInit ==
    /\ orders = << >>
    /\ executions = << >>
    /\ clock = 0
    /\ response = [op |-> "none", kind |-> "ok", detail |-> "", order |-> None]
    /\ request \in [user : ActiveUsers, payload : Payloads]

PostValidate ==
    /\ response.op = "none"
    /\ validate_order_endpoint(request.user, request.payload)
    /\ UNCHANGED request

PostCreate ==
    /\ response.op # "create"
    /\ create_order_endpoint(request.user, request.payload)
    /\ UNCHANGED request

ApiNext == PostValidate \/ PostCreate

ApiSpec == ApiInit /\ [][ApiNext]_vars

\* --------------------------------------------------------------- queries
\* The rows of the orders table, as a set.
OrderRows == { orders[id] : id \in DOMAIN orders }

\* A fetch by id alone, for any user.
get_order_ById(order_id, user_id) ==
    IF order_id \in DOMAIN orders THEN Some(orders[order_id]) ELSE None

\* get_order(db, order_id, user_id): the order, or None.
get_order(order_id, user_id) ==
    IF OwnedBy(order_id, user_id) THEN Some(orders[order_id]) ELSE None

\* db.query(TradeExecution).filter(TradeExecution.order_id == order_id).all():
\* the rows in no stated order, as a set.
ExecutionRows(order_id) ==
    { executions[k] : k \in { j \in DOMAIN executions : executions[j].order_id = order_id } }

\* An ordering by created_at ascending.
RECURSIVE OrderByCreatedAtAsc(_)
OrderByCreatedAtAsc(rows) ==
    IF rows = {} THEN << >>
    ELSE LET first == CHOOSE r \in rows : \A q \in rows : q.created_at >= r.created_at
         IN << first >> \o OrderByCreatedAtAsc(rows \ {first})

\* order_by(Order.created_at.desc()): the rows, latest created_at first.
RECURSIVE OrderByCreatedAtDesc(_)
OrderByCreatedAtDesc(rows) ==
    IF rows = {} THEN << >>
    ELSE LET first == CHOOSE r \in rows : \A q \in rows : q.created_at <= r.created_at
         IN << first >> \o OrderByCreatedAtDesc(rows \ {first})

\* offset(skip).limit(limit)
OffsetLimit(rows, skip, limit) ==
    [k \in 1..(IF Len(rows) - skip < limit
               THEN (IF Len(rows) - skip < 0 THEN 0 ELSE Len(rows) - skip)
               ELSE limit) |-> rows[skip + k]]

\* A status filter that is ignored.
Filtered_Ignored(rows, status) == rows

\* if status: query = query.filter(Order.status == status)
Filtered(rows, status) ==
    IF status # None THEN { r \in rows : r.status = status[1] } ELSE rows

\* get_user_orders(db, user_id, skip, limit, status)
get_user_orders(user_id, skip, limit, status) ==
    OffsetLimit(
        OrderByCreatedAtDesc(Filtered({ r \in OrderRows : r.user_id = user_id }, status)),
        skip, limit)

\* A pending query that leaves out the cancelled orders only.
get_pending_orders_NotCancelled(user_id) ==
    { r \in OrderRows : r.user_id = user_id /\ r.status # "CANCELLED" }

\* get_pending_orders(db, user_id): .all() with no order_by, the rows as a set.
get_pending_orders(user_id) ==
    { r \in OrderRows : r.user_id = user_id /\ r.status = "PENDING" }

\* The rows a query returned.
Rows(op, rows) ==
    [op |-> op, kind |-> "ok", detail |-> "", order |-> None, rows |-> rows]

\* get_order_executions(db, order_id, user_id)
get_order_executions(order_id, user_id) ==
    IF ~OwnedBy(order_id, user_id)
    THEN Raised("get_order_executions", "Order not found")
    ELSE Rows("get_order_executions", ExecutionRows(order_id))

\* The arguments the model calls get_user_orders with.
Skips == {0, 1}

Limits == {1, 2}

StatusFilters == {None, Some("PENDING"), Some("CANCELLED")}

\* A query writes no table and every call overwrites response, so the calls
\* that follow a query are the calls that can be made without it, with the
\* same outcomes.  A behaviour of QuerySpec therefore makes its create, cancel
\* and modify calls and ends with one query, whose arguments and answer it
\* records in response.
QueryOps == {"get_order", "get_order_executions", "get_user_orders", "get_pending_orders"}

Answered == response.op \in QueryOps

GetOrder ==
    /\ ~Answered
    /\ \E order_id \in OrderIds, user_id \in UserIds :
         response' = [op |-> "get_order", kind |-> "ok", detail |-> "",
                      order |-> get_order(order_id, user_id),
                      args |-> [order_id |-> order_id, user_id |-> user_id]]
    /\ UNCHANGED << orders, executions, clock, request >>

GetOrderExecutions ==
    /\ ~Answered
    /\ \E order_id \in OrderIds, user_id \in UserIds :
         response' = get_order_executions(order_id, user_id)
                       @@ [args |-> [order_id |-> order_id, user_id |-> user_id]]
    /\ UNCHANGED << orders, executions, clock, request >>

GetUserOrders ==
    /\ ~Answered
    /\ \E user_id \in UserIds, skip \in Skips, limit \in Limits, status \in StatusFilters :
         response' = Rows("get_user_orders", get_user_orders(user_id, skip, limit, status))
                       @@ [args |-> [user_id |-> user_id, skip |-> skip, limit |-> limit,
                                     status |-> status]]
    /\ UNCHANGED << orders, executions, clock, request >>

GetPendingOrders ==
    /\ ~Answered
    /\ \E user_id \in UserIds :
         response' = Rows("get_pending_orders", get_pending_orders(user_id))
                       @@ [args |-> [user_id |-> user_id]]
    /\ UNCHANGED << orders, executions, clock, request >>

Mutate == ~Answered /\ Next

QueryNext == Mutate \/ GetOrder \/ GetOrderExecutions \/ GetUserOrders \/ GetPendingOrders

QuerySpec == Init /\ [][QueryNext]_vars

\* ------------------------------------------- validate between other calls
\* The calls of validate_order the model makes between the other calls: an
\* active and an inactive user, with a LIMIT request, a LIMIT request without
\* its price (an error) and a STOP_LIMIT BUY request with its stop price above
\* its limit price (a warning).
ValidateCalls ==
    [user : { user \in Users : user.id = 1 },
     order_data : { order_data \in OrderCreate : order_data.order_type \in {"LIMIT", "STOP_LIMIT"} }]

\* validate_order writes no table and every call overwrites response, so, as
\* for the queries, a behaviour of RevalidateSpec makes its create, cancel and
\* modify calls and ends with one call of validate_order, whose arguments and
\* result it records in response.
Revalidated == response.op = "validate"

ValidateBetween ==
    /\ ~Revalidated
    /\ \E call \in ValidateCalls :
         response' = Validated(validate_order(call.user, call.order_data)) @@ [args |-> call]
    /\ UNCHANGED << orders, executions, clock, request >>

MutateBetween == ~Revalidated /\ Next

RevalidateNext == MutateBetween \/ ValidateBetween

RevalidateSpec == Init /\ [][RevalidateNext]_vars

\* ------------------------------------------------- calls that interleave
\* The endpoints are plain functions, which the framework runs on a pool of
\* threads, each request with a database session of its own.  A service call
\* is then a sequence of steps that other calls interleave with: a query
\* loads the row into the session's Order object, the assignments change
\* that object, and commit writes it back.  A behaviour serves at most
\* MaxSessions requests, numbered in the order in which they begin; a session
\* is closed when its request ends and is not used again.
MaxSessions == 3

SessionIds == 1..MaxSessions

\* The session of a request that has not begun, of one that has ended, and
\* one that stands before the commit of the call named by pc, holding the
\* Order object it loaded and, in modify_order, the patch.
Idle == [pc |-> "idle", order |-> None, order_update |-> None]

Closed == [pc |-> "closed", order |-> None, order_update |-> None]

\* The request that begins next.
Begins(s) ==
    /\ request[s].pc = "idle"
    /\ \A r \in SessionIds : r < s => request[r].pc # "idle"

Holding(pc, order, order_update) ==
    [pc |-> pc, order |-> Some(order), order_update |-> order_update]

\* The arguments of the calls that interleave: every user, a MARKET and a
\* LIMIT request, a patch with a quantity and one with notes.
ConcurrentUsers == Users

ConcurrentCreates ==
    { order_data \in OrderCreate :
        order_data.order_type \in {"MARKET", "LIMIT"} /\ order_data.quantity = 2 }

ConcurrentPatches == { p \in Patches : p.quantity # None \/ p.notes # None }

\* An UPDATE that carries the status the session loaded in its WHERE clause:
\* it writes nothing when the row has another status by now.
Flushed_StatusGuarded(row, loaded, order) ==
    IF row.status = loaded.status
    THEN [f \in DOMAIN row |-> IF order[f] # loaded[f] THEN order[f] ELSE row[f]]
    ELSE row

\* db.commit() with a changed Order object: UPDATE orders SET ... WHERE id = ...
\* sets the columns whose value differs from the one the session loaded, in
\* the row as it is by now, whatever its status.
Flushed(row, loaded, order) ==
    [f \in DOMAIN row |-> IF order[f] # loaded[f] THEN order[f] ELSE row[f]]

\* An exception of the database at a commit, which no service function
\* catches.
Failed(op) ==
    [op |-> op, kind |-> "Exception", detail |-> "", order |-> None]

\* No request has begun, the tables are empty and no caller has an answer.
ConcurrentInit ==
    /\ orders = << >>
    /\ executions = << >>
    /\ clock = 0
    /\ response = [s \in SessionIds |->
                     [op |-> "none", kind |-> "ok", detail |-> "", order |-> None]]
    /\ request = [s \in SessionIds |-> Idle]

\* create_order up to db.refresh(db_order): the validation, and the commit of
\* the PENDING row.  A request that is not a MARKET order returns here; for a
\* MARKET order the session goes on to execute_order with the row it has
\* refreshed.
CreatePersist ==
    \E s \in SessionIds, user \in ConcurrentUsers, order_data \in ConcurrentCreates :
      LET validation == validate_order(user, order_data)
          id == Len(orders) + 1
      IN /\ Begins(s)
         /\ IF ~validation.valid
            THEN /\ response' = [response EXCEPT
                                   ![s] = Raised("create", ValidationMessage(validation))]
                 /\ request' = [request EXCEPT ![s] = Closed]
                 /\ UNCHANGED << orders, executions, clock >>
            ELSE \/ /\ Len(orders) < MaxOrders
                    /\ \E t \in utcnow :
                         LET db_order == NewOrder(id, user, order_data, t)
                         IN /\ orders' = Append(orders, db_order)
                            /\ clock' = t
                            /\ IF ExecutesImmediately(order_data)
                               THEN /\ request' = [request EXCEPT
                                                     ![s] = Holding("execute_order", db_order, None)]
                                    /\ UNCHANGED response
                               ELSE /\ response' = [response EXCEPT
                                                      ![s] = Returned("create", db_order)]
                                    /\ request' = [request EXCEPT ![s] = Closed]
                    /\ UNCHANGED executions
                 \/ /\ response' = [response EXCEPT ![s] = Failed("create")]
                    /\ request' = [request EXCEPT ![s] = Closed]
                    /\ UNCHANGED << orders, executions, clock >>

\* execute_order, called by create_order for the MARKET order it persisted:
\* the execution is built from the session's Order object, the object is
\* filled, and one commit inserts the execution and updates the row.
CreateExecute ==
    \E s \in SessionIds :
      /\ request[s].pc = "execute_order"
      /\ \E t \in utcnow :
           LET order == request[s].order[1]
           IN /\ executions' = Append(executions,
                                      Execution(order, SimulatedPrice, DefaultCommission, t))
              /\ orders' = [orders EXCEPT ![order.id] = Flushed(@, order, Filled(order, t))]
              /\ clock' = t
              /\ response' = [response EXCEPT ![s] = Returned("create", orders'[order.id])]
              /\ request' = [request EXCEPT ![s] = Closed]

\* cancel_order up to its status guard: the query and the two raises.
CancelQuery ==
    \E s \in SessionIds, order_id \in OrderIds, user_id \in UserIds :
      /\ Begins(s)
      /\ IF ~OwnedBy(order_id, user_id)
         THEN /\ response' = [response EXCEPT ![s] = Raised("cancel", "Order not found")]
              /\ request' = [request EXCEPT ![s] = Closed]
         ELSE IF ~CanCancel(orders[order_id])
         THEN /\ response' = [response EXCEPT
                                ![s] = Raised("cancel",
                                              "Cannot cancel order with status "
                                                \o StatusValue(orders[order_id].status))]
              /\ request' = [request EXCEPT ![s] = Closed]
         ELSE /\ request' = [request EXCEPT
                               ![s] = Holding("cancel_order", orders[order_id], None)]
              /\ UNCHANGED response
      /\ UNCHANGED << orders, executions, clock >>

\* cancel_order from its assignments on: commit, refresh and return.
CancelCommit ==
    \E s \in SessionIds :
      /\ request[s].pc = "cancel_order"
      /\ \E t \in utcnow :
           LET order == request[s].order[1]
           IN /\ orders' = [orders EXCEPT ![order.id] = Flushed(@, order, Cancelled(order, t))]
              /\ clock' = t
              /\ response' = [response EXCEPT ![s] = Returned("cancel", orders'[order.id])]
              /\ request' = [request EXCEPT ![s] = Closed]
      /\ UNCHANGED executions

\* modify_order up to its status guard.
ModifyQuery ==
    \E s \in SessionIds, order_id \in OrderIds, user_id \in UserIds,
       order_update \in ConcurrentPatches :
      /\ Begins(s)
      /\ IF ~OwnedBy(order_id, user_id)
         THEN /\ response' = [response EXCEPT ![s] = Raised("modify", "Order not found")]
              /\ request' = [request EXCEPT ![s] = Closed]
         ELSE IF ~CanModify(orders[order_id])
         THEN /\ response' = [response EXCEPT
                                ![s] = Raised("modify",
                                              "Cannot modify order with status "
                                                \o StatusValue(orders[order_id].status))]
              /\ request' = [request EXCEPT ![s] = Closed]
         ELSE /\ request' = [request EXCEPT
                               ![s] = Holding("modify_order", orders[order_id], order_update)]
              /\ UNCHANGED response
      /\ UNCHANGED << orders, executions, clock >>

\* modify_order from its assignments on: commit, refresh and return.
ModifyCommit ==
    \E s \in SessionIds :
      /\ request[s].pc = "modify_order"
      /\ \E t \in utcnow :
           LET order == request[s].order[1]
               patched == Patched(order, request[s].order_update, t)
           IN /\ orders' = [orders EXCEPT ![order.id] = Flushed(@, order, patched)]
              /\ clock' = t
              /\ response' = [response EXCEPT ![s] = Returned("modify", orders'[order.id])]
              /\ request' = [request EXCEPT ![s] = Closed]
      /\ UNCHANGED executions

\* The commit a session stands before raises: the transaction is rolled
\* back, the tables stay as they are and the call ends with the exception.
CommitFails ==
    \E s \in SessionIds :
      /\ request[s].pc \notin {"idle", "closed"}
      /\ response' = [response EXCEPT
                        ![s] = Failed(IF request[s].pc = "execute_order" THEN "create"
                                      ELSE IF request[s].pc = "cancel_order" THEN "cancel"
                                      ELSE "modify")]
      /\ request' = [request EXCEPT ![s] = Closed]
      /\ UNCHANGED << orders, executions, clock >>

ConcurrentNext ==
    \/ CreatePersist
    \/ CreateExecute
    \/ CancelQuery
    \/ CancelCommit
    \/ ModifyQuery
    \/ ModifyCommit
    \/ CommitFails

ConcurrentSpec == ConcurrentInit /\ [][ConcurrentNext]_vars

\* ================================================================ claims
Terminal == {"FILLED", "CANCELLED", "REJECTED", "EXPIRED"}

OrderFields ==
    {"id", "user_id", "symbol", "order_type", "side", "quantity", "filled_quantity",
     "limit_price", "stop_price", "status", "created_at", "updated_at", "filled_at",
     "cancelled_at", "rejection_reason", "notes"}

\* Order rows a and b agree on every field outside F.
SameExcept(a, b, F) == \A f \in OrderFields \ F : a[f] = b[f]

\* The step keeps every row but the one with the given id, and adds none.
OthersUnchanged(id) ==
    /\ DOMAIN orders' = DOMAIN orders
    /\ \A j \in DOMAIN orders \ {id} : orders'[j] = orders[j]

\* The executions of the order with the given id, in a table e.
ExecutionsOf(e, id) == { k \in DOMAIN e : e[k].order_id = id }

\* C1: an order in a terminal status never changes again: every step keeps
\* its row as it is, and every cancel or modify on it raises.
C1_TerminalImmutable ==
    [][/\ \A id \in DOMAIN orders :
            orders[id].status \in Terminal =>
              /\ id \in DOMAIN orders'
              /\ \A f \in OrderFields : orders'[id][f] = orders[id][f]
       /\ (response'.op = "cancel" /\ response'.kind = "ok") =>
            \A id \in DOMAIN orders, user_id \in UserIds :
              cancel_order(id, user_id) => orders[id].status \notin Terminal
       /\ (response'.op = "modify" /\ response'.kind = "ok") =>
            \A id \in DOMAIN orders, user_id \in UserIds, order_update \in Patches :
              modify_order(id, user_id, order_update) => orders[id].status \notin Terminal]_vars

\* A cancel or modify has just been refused on an order in a terminal status.
C1_Witness ==
    /\ response.op \in {"cancel", "modify"}
    /\ response.kind = "ValueError"
    /\ response.detail # "Order not found"
    /\ \E id \in DOMAIN orders : orders[id].status \in Terminal

\* C2: cancel of an owned PENDING order succeeds, sets status CANCELLED and
\* cancelled_at and updated_at to the time of the call, and leaves every other
\* field, every other order and every TradeExecution unchanged.
C2_CancelFrame ==
    [][response'.op = "cancel" =>
         \A id \in OrderIds, user_id \in UserIds :
           (OwnedBy(id, user_id) /\ orders[id].status = "PENDING" /\ cancel_order(id, user_id)) =>
             /\ response'.kind = "ok"
             /\ response'.order = Some(orders'[id])
             /\ orders'[id].status = "CANCELLED"
             /\ clock' > clock
             /\ orders'[id].cancelled_at = Some(clock')
             /\ orders'[id].updated_at = clock'
             /\ SameExcept(orders'[id], orders[id], {"status", "cancelled_at", "updated_at"})
             /\ OthersUnchanged(id)
             /\ executions' = executions]_vars

\* A cancel has just succeeded while another order and an execution exist.
C2_Witness ==
    /\ response.op = "cancel"
    /\ response.kind = "ok"
    /\ Len(orders) >= 2
    /\ Len(executions) >= 1
    /\ \E id \in DOMAIN orders :
         /\ response.order = Some(orders[id])
         /\ orders[id].status = "CANCELLED"
         /\ orders[id].cancelled_at = Some(clock)

\* The value of each OrderStatus member, as the error messages spell it.
Spelled(status) ==
    CASE status = "PENDING" -> "pending"
      [] status = "CANCELLED" -> "cancelled"
      [] status = "FILLED" -> "filled"
      [] status = "PARTIALLY_FILLED" -> "partially_filled"
      [] status = "REJECTED" -> "rejected"
      [] status = "EXPIRED" -> "expired"

\* C3: cancel of an owned order that is not PENDING raises with a message that
\* names the current status ("cancelled" for a second cancel, "filled" for a
\* filled MARKET order) and changes no table.
C3_CancelInvalidState ==
    [][response'.op = "cancel" =>
         \A id \in DOMAIN orders :
           (orders[id].status # "PENDING" /\ cancel_order(id, orders[id].user_id)) =>
             /\ response'.kind = "ValueError"
             /\ response'.detail = "Cannot cancel order with status " \o Spelled(orders[id].status)
             /\ (orders[id].order_type = "MARKET" =>
                   response'.detail = "Cannot cancel order with status filled")
             /\ UNCHANGED << orders, executions, clock >>]_vars

\* A second cancel of a cancelled order has just been refused.
C3_Witness ==
    /\ response.op = "cancel"
    /\ response.kind = "ValueError"
    /\ response.detail = "Cannot cancel order with status cancelled"
    /\ \E id \in DOMAIN orders : orders[id].status = "CANCELLED"

\* C4: modify succeeds only on an owned PENDING order; on an owned order in
\* another status it raises with a message naming that status; a modify that
\* raises changes no field of any order.
C4_ModifyGuard ==
    [][response'.op = "modify" =>
         /\ response'.kind = "ok" =>
              \A id \in OrderIds, user_id \in UserIds, order_update \in Patches :
                modify_order(id, user_id, order_update) =>
                  (OwnedBy(id, user_id) /\ orders[id].status = "PENDING")
         /\ response'.kind # "ok" =>
              /\ response'.kind = "ValueError"
              /\ UNCHANGED << orders, executions, clock >>
              /\ \A id \in DOMAIN orders, order_update \in Patches :
                   (orders[id].status # "PENDING"
                      /\ modify_order(id, orders[id].user_id, order_update)) =>
                     response'.detail =
                       "Cannot modify order with status " \o Spelled(orders[id].status)]_vars

\* A modify of a filled order has just been refused.
C4_Witness ==
    /\ response.op = "modify"
    /\ response.kind = "ValueError"
    /\ response.detail = "Cannot modify order with status filled"
    /\ \E id \in DOMAIN orders : orders[id].status = "FILLED"

CommaSeparated(errors) ==
    CASE Len(errors) = 1 -> errors[1]
      [] Len(errors) = 2 -> errors[1] \o ", " \o errors[2]
      [] Len(errors) = 3 -> errors[1] \o ", " \o errors[2] \o ", " \o errors[3]
      [] OTHER -> "more than three errors"

\* The sum of the quantities of the executions of the order with the given id.
ExecutedQuantity(id) ==
    LET sum[k \in 0..Len(executions)] ==
          IF k = 0 THEN 0
          ELSE sum[k - 1] + (IF executions[k].order_id = id THEN executions[k].quantity ELSE 0)
    IN sum[Len(executions)]

\* C6: a successful create of a MARKET order with quantity q returns the order
\* FILLED with filled_quantity q and filled_at set, and leaves exactly one
\* TradeExecution for it: quantity q, price 100, commission 0, the order's
\* symbol and side.
C6_MarketCreateFilled ==
    [][(response'.op = "create" /\ response'.kind = "ok") =>
       \A user \in Users, order_data \in OrderCreate :
         (order_data.order_type = "MARKET" /\ create_order(user, order_data)) =>
           LET id == Len(orders) + 1
               own == ExecutionsOf(executions', id)
           IN /\ DOMAIN orders' = 1..id
              /\ response'.order = Some(orders'[id])
              /\ orders'[id].status = "FILLED"
              /\ orders'[id].quantity = order_data.quantity
              /\ orders'[id].filled_quantity = order_data.quantity
              /\ orders'[id].filled_at # None
              /\ Cardinality(own) = 1
              /\ \A k \in own :
                   /\ executions'[k].quantity = order_data.quantity
                   /\ executions'[k].price = 100
                   /\ executions'[k].commission = 0
                   /\ executions'[k].symbol = orders'[id].symbol
                   /\ executions'[k].side = orders'[id].side]_vars

\* A MARKET SELL order for 2 MSFT has just been created and filled.
C6_Witness ==
    /\ response.op = "create"
    /\ response.kind = "ok"
    /\ response.order # None
    /\ response.order[1].order_type = "MARKET"
    /\ response.order[1].status = "FILLED"
    /\ response.order[1].side = "SELL"
    /\ response.order[1].filled_quantity = 2
    /\ \E k \in DOMAIN executions :
         /\ executions[k].order_id = response.order[1].id
         /\ executions[k].quantity = 2
         /\ executions[k].side = "SELL"

\* C7: a successful create of a LIMIT, STOP or STOP_LIMIT order returns the
\* order PENDING with filled_quantity 0, owned by the requesting user, and
\* creates no TradeExecution.
C7_NonMarketCreatePending ==
    [][(response'.op = "create" /\ response'.kind = "ok") =>
       \A user \in Users, order_data \in OrderCreate :
         (order_data.order_type \in {"LIMIT", "STOP", "STOP_LIMIT"}
            /\ create_order(user, order_data)) =>
           LET id == Len(orders) + 1
           IN /\ DOMAIN orders' = 1..id
              /\ response'.order = Some(orders'[id])
              /\ orders'[id].order_type = order_data.order_type
              /\ orders'[id].status = "PENDING"
              /\ orders'[id].filled_quantity = 0
              /\ orders'[id].user_id = user.id
              /\ executions' = executions
              /\ ExecutionsOf(executions', id) = {}]_vars

\* A STOP order of user 2 has just been created and is PENDING.
C7_Witness ==
    /\ response.op = "create"
    /\ response.kind = "ok"
    /\ response.order # None
    /\ response.order[1].order_type = "STOP"
    /\ response.order[1].status = "PENDING"
    /\ response.order[1].user_id = 2
    /\ ExecutionsOf(executions, response.order[1].id) = {}

\* The calls of create for which validate_order reports at least one error.
Rejected ==
    { [user |-> user, order_data |-> order_data,
       errors |-> validate_order(user, order_data).errors] :
        << user, order_data >> \in
          { c \in Users \X OrderCreate : Len(validate_order(c[1], c[2]).errors) >= 1 } }

\* C8: when validate_order reports an error, create raises with the error
\* messages joined in order, and the orders and executions are as before.
C8_ValidationFailurePersistsNothing ==
    [][response'.op = "create" =>
       \A rejected \in Rejected :
         create_order(rejected.user, rejected.order_data) =>
           /\ response'.kind = "ValueError"
           /\ response'.detail = "Order validation failed: " \o CommaSeparated(rejected.errors)
           /\ orders' = orders
           /\ executions' = executions]_vars

\* A create with two validation errors has just been refused while an order
\* exists.
C8_Witness ==
    /\ response.op = "create"
    /\ response.kind = "ValueError"
    /\ response.detail =
         "Order validation failed: User account is not active, "
           \o "Limit price is required for limit orders"
    /\ Len(orders) >= 1

C11_ValidIffNoErrors ==
    /\ response.op = "validate" =>
         (response.validation.valid <=> response.validation.errors = << >>)
    /\ response.op = "create" =>
         LET validation == validate_order(request.user, request.order_data)
         IN validation.errors = << >> =>
              /\ response.kind = "ok"
              /\ Len(orders) = 1
              /\ response.order = Some(orders[1])
              /\ (validation.warnings # << >> => orders[1].status = "PENDING")

\* A STOP_LIMIT BUY order with stop price 110 above limit price 100, for which
\* validate_order gives a warning, has just been created.
C11_Witness ==
    /\ response.op = "create"
    /\ response.kind = "ok"
    /\ request.order_data.order_type = "STOP_LIMIT"
    /\ request.order_data.side = "BUY"
    /\ request.order_data.stop_price = Some(110)
    /\ request.order_data.limit_price = Some(100)
    /\ Len(validate_order(request.user, request.order_data).warnings) = 1
    /\ Len(orders) = 1

\* The six rules of the validator in their order: whether the user and the
\* request violate the rule, and the message of the rule.
Rules(user, order_data) ==
    << [violated |-> user.is_active = FALSE,
        message |-> "User account is not active"],
       [violated |-> Len(order_data.symbol) = 0 \/ Len(order_data.symbol) > 20,
        message |-> "Invalid stock symbol"],
       [violated |-> ~(order_data.quantity > 0),
        message |-> "Quantity must be greater than 0"],
       [violated |-> order_data.order_type = "LIMIT" /\ order_data.limit_price = None,
        message |-> "Limit price is required for limit orders"],
       [violated |-> order_data.order_type \in {"STOP", "STOP_LIMIT"} /\ order_data.stop_price = None,
        message |-> "Stop price is required for stop orders"],
       [violated |-> order_data.order_type = "STOP_LIMIT" /\ order_data.limit_price = None,
        message |-> "Limit price is required for stop-limit orders"] >>

IsViolated(rule) == rule.violated

\* The messages of the violated rules, in rule order.
ViolatedMessages(user, order_data) ==
    LET violated == SelectSeq(Rules(user, order_data), IsViolated)
    IN [k \in 1..Len(violated) |-> violated[k].message]

\* C12: validate evaluates all six rules without short-circuiting: for every
\* user and request its errors list is exactly the messages of the violated
\* rules, in rule order 1..6.
C12_AllRulesInOrder ==
    response.op = "validate" =>
      response.validation.errors = ViolatedMessages(request.user, request.order_data)

\* An inactive user has validated a STOP_LIMIT request with an empty symbol,
\* quantity 0 and no prices: five errors, in rule order.
C12_Witness ==
    /\ response.op = "validate"
    /\ request.user.is_active = FALSE
    /\ request.order_data.symbol = ""
    /\ request.order_data.quantity = 0
    /\ request.order_data.order_type = "STOP_LIMIT"
    /\ response.validation.errors =
         << "User account is not active",
            "Invalid stock symbol",
            "Quantity must be greater than 0",
            "Stop price is required for stop orders",
            "Limit price is required for stop-limit orders" >>

\* C13: for a LIMIT request with no limit_price, validate returns valid = false
\* with "Limit price is required for limit orders" among its errors, and create
\* raises and leaves the orders and executions tables empty.
C13_LimitWithoutPrice ==
    (request.order_data.order_type = "LIMIT" /\ request.order_data.limit_price = None) =>
      /\ response.op = "validate" =>
           /\ response.validation.valid = FALSE
           /\ \E k \in DOMAIN response.validation.errors :
                response.validation.errors[k] = "Limit price is required for limit orders"
      /\ response.op = "create" =>
           /\ response.kind = "ValueError"
           /\ response.order = None
           /\ orders = << >>
           /\ executions = << >>

\* An active user's create of a LIMIT order with a stop price and no limit
\* price has just been refused for that reason alone.
C13_Witness ==
    /\ response.op = "create"
    /\ response.kind = "ValueError"
    /\ response.detail = "Order validation failed: Limit price is required for limit orders"
    /\ request.user.is_active
    /\ request.order_data.order_type = "LIMIT"
    /\ request.order_data.limit_price = None
    /\ request.order_data.stop_price = Some(100)
    /\ orders = << >>

\* C14: for a STOP_LIMIT request of an active user with a valid symbol, a
\* positive quantity and both prices, validate returns valid = true with no
\* errors, and exactly one warning when the side is BUY and stop_price >
\* limit_price or the side is SELL and stop_price < limit_price; otherwise,
\* equal prices included, no warning.
C14_StopLimitWarnings ==
    (/\ response.op = "validate"
     /\ request.user.is_active
     /\ Len(request.order_data.symbol) \in 1..20
     /\ request.order_data.quantity > 0
     /\ request.order_data.order_type = "STOP_LIMIT"
     /\ request.order_data.limit_price # None
     /\ request.order_data.stop_price # None) =>
      LET stop == request.order_data.stop_price[1]
          limit == request.order_data.limit_price[1]
          side == request.order_data.side
      IN /\ response.validation.valid = TRUE
         /\ response.validation.errors = << >>
         /\ response.validation.warnings =
              IF side = "BUY" /\ stop > limit
              THEN << "Stop price is above limit price for buy stop-limit order" >>
              ELSE IF side = "SELL" /\ stop < limit
              THEN << "Stop price is below limit price for sell stop-limit order" >>
              ELSE << >>

\* A STOP_LIMIT SELL request with stop price 90 below limit price 100 has been
\* validated: valid, with the one warning for sell orders.
C14_Witness ==
    /\ response.op = "validate"
    /\ request.user.is_active
    /\ request.order_data.order_type = "STOP_LIMIT"
    /\ request.order_data.side = "SELL"
    /\ request.order_data.stop_price = Some(90)
    /\ request.order_data.limit_price = Some(100)
    /\ response.validation.valid
    /\ Len(response.validation.warnings) = 1

\* C15: a create request for a LIMIT order whose body carries no limit_price
\* is refused by the request schema with status 422, not accepted and not
\* answered with the 400 of the service, and the same body posted to the
\* validate endpoint is answered 200 with valid = false.
C15_SchemaRejectsLimitWithoutPrice ==
    (/\ request.payload.order_type = "LIMIT"
     /\ "limit_price" \notin DOMAIN request.payload
     /\ request.payload.quantity > 0) =>
      /\ response.op = "create" =>
           /\ status_code(response) = 422
           /\ orders = << >>
      /\ response.op = "validate" =>
           /\ status_code(response) = 200
           /\ response.validation.valid = FALSE

\* C16: getOrderExecutions(order_id, user_id) returns executions only when the
\* order with that id is owned by user_id, and then those of that order; for
\* an order of another user it fails with "Order not found", which the
\* endpoint answers with 404, and returns no execution.
C16_ExecutionsOwnerOnly ==
    response.op = "get_order_executions" =>
      LET order_id == response.args.order_id
          user_id == response.args.user_id
      IN /\ response.kind = "ok" =>
              /\ order_id \in DOMAIN orders
              /\ orders[order_id].user_id = user_id
              /\ \A row \in response.rows : row.order_id = order_id
              /\ \A k \in DOMAIN executions :
                   executions[k].order_id = order_id => executions[k] \in response.rows
         /\ (order_id \in DOMAIN orders /\ orders[order_id].user_id # user_id) =>
              /\ response.kind = "ValueError"
              /\ response.detail = "Order not found"
              /\ status_code(response) = 404
              /\ "rows" \notin DOMAIN response

\* A user has asked for the executions of a filled order of another user and
\* got "Order not found".
C16_Witness ==
    /\ response.op = "get_order_executions"
    /\ response.kind = "ValueError"
    /\ response.args.order_id \in DOMAIN orders
    /\ orders[response.args.order_id].user_id # response.args.user_id
    /\ orders[response.args.order_id].status = "FILLED"
    /\ \E k \in DOMAIN executions : executions[k].order_id = response.args.order_id

\* An id that no order has.
AbsentId == MaxOrders + 1

\* The answer of a query without the arguments recorded with it.
Outcome(answer) == [k \in DOMAIN answer \ {"args"} |-> answer[k]]

\* C17: per-user isolation.  When user A calls getOrder, getOrderExecutions,
\* cancel or modify with the id of an order of another user B, the outcome is
\* the outcome of the same call with an id that no order has, whatever the
\* status of B's order, and no order changes; and no row that a list or pending
\* query returns to A belongs to another user.  The answers of cancel and
\* modify do not carry the arguments, so for them: a step is the step of no
\* call that names another user's order, whatever the patch, or else it is the
\* step every user gets for an id that no order has, with every order as it
\* was.
C17_Isolation ==
    [][/\ response'.op = "get_order" =>
            LET a == response'.args
            IN (a.order_id \in DOMAIN orders /\ orders[a.order_id].user_id # a.user_id) =>
                 /\ response'.order = get_order(AbsentId, a.user_id)
                 /\ response'.order = None
                 /\ orders' = orders
       /\ response'.op = "get_order_executions" =>
            LET a == response'.args
            IN (a.order_id \in DOMAIN orders /\ orders[a.order_id].user_id # a.user_id) =>
                 /\ Outcome(response') = get_order_executions(AbsentId, a.user_id)
                 /\ orders' = orders
       /\ response'.op = "cancel" =>
            \/ \A id \in DOMAIN orders :
                 \A user_id \in UserIds \ {orders[id].user_id} : ~cancel_order(id, user_id)
            \/ /\ \A user_id \in UserIds : cancel_order(AbsentId, user_id)
               /\ orders' = orders
       /\ response'.op = "modify" =>
            \/ \A id \in DOMAIN orders, order_update \in Patches :
                 \A user_id \in UserIds \ {orders[id].user_id} :
                   ~modify_order(id, user_id, order_update)
            \/ /\ \A user_id \in UserIds :
                    \E order_update \in Patches : modify_order(AbsentId, user_id, order_update)
               /\ orders' = orders
       /\ response'.op = "get_user_orders" =>
            \A k \in DOMAIN response'.rows : response'.rows[k].user_id = response'.args.user_id
       /\ response'.op = "get_pending_orders" =>
            \A row \in response'.rows : row.user_id = response'.args.user_id]_vars

\* Every order is a PENDING order of one user, each id of the model is taken,
\* and a cancel has just answered "Order not found": the other user has tried
\* to cancel one of them.
C17_Witness ==
    /\ response.op = "cancel"
    /\ response.kind = "ValueError"
    /\ response.detail = "Order not found"
    /\ DOMAIN orders = OrderIds
    /\ \A id \in DOMAIN orders : orders[id].user_id = 1 /\ orders[id].status = "PENDING"

\* C18: getUserOrders with a status filter returns no order whose status
\* differs from the filter, for every mixture of statuses that create and
\* cancel produce and every offset and limit; with the filter "pending" every
\* returned order is PENDING.
C18_StatusFilter ==
    (response.op = "get_user_orders" /\ response.args.status # None) =>
      /\ \A k \in DOMAIN response.rows : response.rows[k].status = response.args.status[1]
      /\ response.args.status = Some("PENDING") =>
           \A k \in DOMAIN response.rows : response.rows[k].status = "PENDING"

\* A user with a PENDING and a CANCELLED order has listed its orders with the
\* filter "pending", offset 0 and limit 2, and got the PENDING order alone.
C18_Witness ==
    /\ response.op = "get_user_orders"
    /\ response.args.status = Some("PENDING")
    /\ response.args.skip = 0
    /\ response.args.limit = 2
    /\ Len(response.rows) = 1
    /\ response.rows[1].status = "PENDING"
    /\ \E id \in DOMAIN orders :
         /\ orders[id].user_id = response.args.user_id
         /\ orders[id].status = "CANCELLED"

\* The ids of the orders of a user that match a status filter.
Matching(user_id, status) ==
    { id \in DOMAIN orders :
        /\ orders[id].user_id = user_id
        /\ (status = None \/ orders[id].status = status[1]) }

\* How many of the orders with the given ids were created later than the row.
CreatedLater(row, ids) == Cardinality({ id \in ids : orders[id].created_at > row.created_at })

\* C19: getUserOrders(user_id, offset, limit, statusFilter) returns the orders
\* of user_id that match the filter, latest created_at first, without the
\* first offset of them and at most limit of them: its k-th row is the
\* matching order with offset + k - 1 matching orders created later, and it
\* has min(limit, matching - offset) rows, none when that is negative.
C19_NewestFirstSlice ==
    response.op = "get_user_orders" =>
      LET a == response.args
          rows == response.rows
          matching == Matching(a.user_id, a.status)
          rest == Cardinality(matching) - a.skip
      IN /\ Len(rows) = IF rest < 0 THEN 0 ELSE IF rest < a.limit THEN rest ELSE a.limit
         /\ \A k \in DOMAIN rows :
              /\ \E id \in matching : rows[k] = orders[id]
              /\ CreatedLater(rows[k], matching) = a.skip + k - 1
         /\ \A k \in DOMAIN rows \ {1} : rows[k - 1].created_at >= rows[k].created_at

\* A user with two orders has listed them with offset 1 and limit 1 and no
\* filter, and got the order created first.
C19_Witness ==
    /\ response.op = "get_user_orders"
    /\ response.args.status = None
    /\ response.args.skip = 1
    /\ response.args.limit = 1
    /\ Len(response.rows) = 1
    /\ Len(orders) = 2
    /\ orders[1].user_id = response.args.user_id
    /\ orders[2].user_id = response.args.user_id
    /\ response.rows[1] = orders[1]
    /\ orders[1].created_at < orders[2].created_at

\* The order with the given id is in the pending orders of its owner.
IsPending(id) == id \in DOMAIN orders /\ orders[id] \in get_pending_orders(orders[id].user_id)

\* C20: getPendingOrders(user_id) returns exactly the orders of user_id whose
\* status is PENDING.  An order is among them from its creation, unless it is
\* a MARKET order, which is never among them once create has returned; it
\* leaves them only by being cancelled or filled, and never comes back.
C20_PendingOrders ==
    [][/\ response'.op = "get_pending_orders" =>
            response'.rows =
              { orders[id] : id \in { j \in DOMAIN orders :
                                        /\ orders[j].user_id = response'.args.user_id
                                        /\ orders[j].status = "PENDING" } }
       /\ orders' # orders =>
            \A id \in DOMAIN orders' :
              /\ id \notin DOMAIN orders =>
                   (IsPending(id)' <=> orders'[id].order_type # "MARKET")
              /\ (id \in DOMAIN orders /\ ~IsPending(id)) => ~IsPending(id)'
              /\ (IsPending(id) /\ ~IsPending(id)') =>
                   orders'[id].status \in {"CANCELLED", "FILLED"}
              /\ (IsPending(id) /\ orders'[id].status = "PENDING") => IsPending(id)']_vars

\* A user with a filled MARKET order and a PENDING order has asked for its
\* pending orders and got the PENDING one alone.
C20_Witness ==
    /\ response.op = "get_pending_orders"
    /\ Cardinality(response.rows) = 1
    /\ \A row \in response.rows : row.status = "PENDING" /\ row.order_type # "MARKET"
    /\ \E id \in DOMAIN orders :
         /\ orders[id].user_id = response.args.user_id
         /\ orders[id].order_type = "MARKET"
         /\ orders[id].status = "FILLED"

\* C21: in every reachable state every LIMIT or STOP_LIMIT order has a
\* limit_price that is present and positive, and every STOP or STOP_LIMIT
\* order has a stop_price that is present and positive: no create and no
\* modify produces or leaves an order without them.
C21_RequiredPrices ==
    \A id \in DOMAIN orders :
      /\ orders[id].order_type \in {"LIMIT", "STOP_LIMIT"} =>
           /\ orders[id].limit_price # None
           /\ orders[id].limit_price[1] > 0
      /\ orders[id].order_type \in {"STOP", "STOP_LIMIT"} =>
           /\ orders[id].stop_price # None
           /\ orders[id].stop_price[1] > 0

\* A modify that carries a quantity and no price has just changed a LIMIT
\* order, which keeps the limit price it was created with.
C21_Witness ==
    /\ response.op = "modify"
    /\ response.kind = "ok"
    /\ response.order[1].order_type = "LIMIT"
    /\ response.order[1].quantity = 1
    /\ response.order[1].limit_price = Some(100)
    /\ response.order[1].updated_at > response.order[1].created_at

\* C22: in every reachable state every order has quantity > 0, also after
\* any sequence of modify calls, which do not call validate_order.
C22_QuantityPositive ==
    \A id \in DOMAIN orders : orders[id].quantity > 0

\* Two modify calls, one with a quantity and one with notes, have changed a
\* STOP order created with quantity 2.
C22_Witness ==
    /\ response.op = "modify"
    /\ response.kind = "ok"
    /\ \E id \in DOMAIN orders :
         /\ response.order = Some(orders[id])
         /\ orders[id].order_type = "STOP"
         /\ orders[id].quantity = 1
         /\ orders[id].notes = Some("m")
         /\ orders[id].updated_at >= orders[id].created_at + 2

C29_ExecutionIffFilled ==
    \A id \in DOMAIN orders :
      LET own == ExecutionsOf(executions, id)
      IN /\ (own # {}) <=> (orders[id].status = "FILLED")
         /\ orders[id].status = "FILLED" =>
              /\ Cardinality(own) = 1
              /\ orders[id].order_type = "MARKET"
              /\ \A k \in own :
                   /\ executions[k].symbol = orders[id].symbol
                   /\ executions[k].side = orders[id].side
                   /\ executions[k].quantity = orders[id].quantity

\* A modify of a filled MARKET order has just been refused while a PENDING
\* order without executions exists.
C29_Witness ==
    /\ response.op = "modify"
    /\ response.kind = "ValueError"
    /\ Len(orders) = 2
    /\ orders[1].order_type = "MARKET"
    /\ orders[1].status = "FILLED"
    /\ Cardinality(ExecutionsOf(executions, 1)) = 1
    /\ orders[2].status = "PENDING"
    /\ ExecutionsOf(executions, 2) = {}

\* C30: in every state reached by sequential create, cancel and modify calls
\* cancelled_at is set if and only if the status is CANCELLED, filled_at is
\* set if and only if the status is FILLED, no order has both set, and
\* updated_at is never earlier than created_at and never decreases.
C30_Timestamps ==
    [][/\ \A id \in DOMAIN orders' :
            /\ (orders'[id].cancelled_at # None) <=> (orders'[id].status = "CANCELLED")
            /\ (orders'[id].filled_at # None) <=> (orders'[id].status = "FILLED")
            /\ ~(orders'[id].cancelled_at # None /\ orders'[id].filled_at # None)
            /\ orders'[id].updated_at >= orders'[id].created_at
       /\ \A id \in DOMAIN orders :
            /\ id \in DOMAIN orders'
            /\ orders'[id].updated_at >= orders[id].updated_at]_vars

\* An order has just been cancelled, later than it was created, while a
\* filled order exists whose updated_at is its created_at.
C30_Witness ==
    /\ response.op = "cancel"
    /\ response.kind = "ok"
    /\ response.order[1].cancelled_at = Some(clock)
    /\ response.order[1].updated_at = clock
    /\ response.order[1].created_at < clock
    /\ response.order[1].filled_at = None
    /\ \E id \in DOMAIN orders :
         /\ orders[id].filled_at # None
         /\ orders[id].cancelled_at = None
         /\ orders[id].updated_at = orders[id].created_at

\* C25: cancel and modify report an order that is absent or not owned by the
\* caller as a NotFound outcome that the endpoint answers with 404, distinct
\* from the InvalidState outcome for an owned order that is not PENDING, which
\* it answers with another 4xx status.
C25_NotFoundIs404 ==
    (response.op \in {"cancel", "modify"} /\ response.kind = "ValueError") =>
      IF response.detail = "Order not found"
      THEN status_code(response) = 404
      ELSE status_code(response) \in 400..499 /\ status_code(response) # 404

Commits(s, pc) ==
    /\ request[s].pc = pc
    /\ request'[s].pc = "closed"
    /\ response'[s].kind = "ok"

\* C26: cancel and fill each read the order and write it in separate steps,
\* with no guard on the write.  The commit of execute_order leaves the order
\* FILLED with a new TradeExecution, and the commit of cancel_order leaves it
\* CANCELLED, whatever status the row has by then; so when the create of a
\* MARKET order interleaves with a cancel of that order, the cancel can report
\* success and the order be FILLED with a TradeExecution afterwards: an order
\* whose cancel has reported success does not stay CANCELLED.
C26_UnguardedWrites ==
    [][\A s \in SessionIds :
         /\ Commits(s, "execute_order") =>
              LET id == request[s].order[1].id
              IN /\ request[s].order[1].status = "PENDING"
                 /\ orders'[id].status = "FILLED"
                 /\ Len(executions') = Len(executions) + 1
                 /\ executions'[Len(executions')].order_id = id
                 /\ response'[s].order[1].status = "FILLED"
         /\ Commits(s, "cancel_order") =>
              LET id == request[s].order[1].id
              IN /\ request[s].order[1].status = "PENDING"
                 /\ orders'[id].status = "CANCELLED"
                 /\ response'[s].order[1].status = "CANCELLED"]_vars

\* The cancel of a MARKET order has reported success to the user who created
\* it, the create of that order has returned it FILLED, and the order is
\* FILLED with a TradeExecution.
C26_Witness ==
    \E s \in SessionIds, c \in SessionIds, id \in DOMAIN orders :
      /\ response[s].op = "cancel"
      /\ response[s].kind = "ok"
      /\ response[s].order[1].id = id
      /\ response[s].order[1].status = "CANCELLED"
      /\ response[c].op = "create"
      /\ response[c].kind = "ok"
      /\ response[c].order[1].id = id
      /\ response[c].order[1].user_id = response[s].order[1].user_id
      /\ orders[id].order_type = "MARKET"
      /\ orders[id].status = "FILLED"
      /\ ExecutionsOf(executions, id) # {}

\* C27: when the read step and the write step of concurrent cancel and modify
\* calls on the same PENDING order interleave, a CANCELLED order is never
\* modified, and at most one cancel of a given order reports success.
C27_NoLostCancel ==
    [][/\ \A s \in SessionIds :
            Commits(s, "modify_order") =>
              orders[request[s].order[1].id].status # "CANCELLED"
       /\ \A s \in SessionIds :
            \A r \in SessionIds \ {s} :
              ~(/\ response'[s].op = "cancel"
                /\ response'[s].kind = "ok"
                /\ response'[r].op = "cancel"
                /\ response'[r].kind = "ok"
                /\ response'[r].order[1].id = response'[s].order[1].id)]_vars

\* C28: create is all-or-nothing.  When a create ends in an error, a
\* validation failure or a failure of the database in the fill step of a
\* MARKET order, no Order of that call is in the orders table: the step in
\* which a create ends with a validation error leaves the tables as they are,
\* and after the step in which it ends with a failed commit in execute_order
\* the order it had persisted is gone, so that no MARKET order is left PENDING.
C28_CreateAllOrNothing ==
    [][\A s \in SessionIds :
         /\ (/\ request[s].pc = "idle"
             /\ request'[s].pc = "closed"
             /\ response'[s].op = "create"
             /\ response'[s].kind # "ok") =>
              /\ orders' = orders
              /\ executions' = executions
         /\ (/\ request[s].pc = "execute_order"
             /\ request'[s].pc = "closed"
             /\ response'[s].kind # "ok") =>
              /\ request[s].order[1].id \notin DOMAIN orders'
              /\ \A id \in DOMAIN orders' :
                   ~(orders'[id].order_type = "MARKET" /\ orders'[id].status = "PENDING")]_vars
====
